---- MODULE Spec2Model ----
(***************************************************************************)
(* B3 IBOVESPA ETL: the paginated retriever of src/ETL/extract.py           *)
(* (extract_data, extract_all_pages, _extract_single_page) and the          *)
(* date-partitioned store writes of src/ETL/extract.py and                  *)
(* src/ETL/transform.py (save_to_s3, save_transformed_to_s3).               *)
(*                                                                          *)
(* Spec      : one run of the retriever against an upstream source whose    *)
(*             every request ends in one of six outcomes.                   *)
(* SpecStore : calls of the store writers, of read_from_s3 and of           *)
(*             transform_and_save against a key -> object store.            *)
(* SpecConcurrent : two runs of save_to_s3 interleaved, with a reader.      *)
(* SpecTransform  : transform_data and one transform_and_save on a stored   *)
(*             snapshot drawn from the frames of up to MaxRows rows.        *)
(***************************************************************************)
EXTENDS Integers, Sequences, FiniteSets, TLC

\* ------------------------------------------------------------------ bounds
\* Largest number of records the upstream index holds (and largest page size).
MaxRecords == 3
\* Largest max_retries a run is started with.
MaxRetriesBound == 2
\* Largest number of rows of a frame handed to transform_data.
MaxRows == 2
\* Longest text of a numeric cell of a record handed to prepare_dataframe.
MaxLen == 4

VARIABLES
    \* ---- the run's inputs (fixed after Init)
    mode,          \* "single": main calls extract_data; "all": extract_all_pages
    max_retries,   \* the max_retries argument
    page_size,     \* self.page_size
    srcRecords,    \* number of records the upstream index holds
    srcHasPage,    \* whether upstream bodies carry the `page` object
    \* ---- the retriever's control state and locals
    pc,            \* "extract_data" | "first_page" | "page_loop" | "single_page" | "done"
    attempt,       \* the `attempt` loop variable of the running retry loop
    page_num,      \* the `page_num` loop variable of extract_all_pages
    first_page,    \* extract_all_pages' first_page
    total_pages,   \* extract_all_pages' total_pages
    all_results,   \* extract_all_pages' all_results
    result,        \* value returned by the top-level call (when pc = "done")
    raised,        \* exception that left the top-level call, "none" if none
    \* ---- history
    log,           \* sequence of <<event, page>>: "req", "backoff", "delay"
    lastErr,       \* page -> kind of the last failed attempt, "none" if none
    errs,          \* page -> number of attempts that ended in an exception
    empties,       \* page -> number of attempts that decoded an empty body
    pageOutcome,   \* page -> how the page's retry loop ended
    pageRet,       \* page -> value its fetch function returned
    \* ---- the store (SpecStore)
    store,         \* S3 key -> stored data frame, or Absent
    storeBefore,   \* the store before the last call
    call,          \* the last store call: [op, df, date, s3, target, s3w]
    ret,           \* the boolean the last store call returned
    readResult,    \* what read_from_s3 returned, if it was the last call
    storeRaised,   \* exception that left the last store call, "none" if none
    saved,         \* date -> frame save_to_s3 last uploaded, << >> if none
    \* ---- two concurrent runs of save_to_s3 (SpecConcurrent)
    runs,          \* run -> [pc, df, date, buffer, ret]
    uploads,       \* the runs in the order their uploads completed
    \* ---- one call of transform_data (SpecTransform)
    t_df,          \* the frame handed to transform_data
    t_result,      \* what the call ended in: [raised, rows]
    \* ---- one call of prepare_dataframe (SpecPrepare)
    p_raw,         \* the raw_data handed to prepare_dataframe
    p_result,      \* what the call ended in: [raised, logged, rows]
    \* ---- one call of _build_api_url (SpecUrl)
    u_params,      \* page_number and the extractor's page_size, language, index
    u_url,         \* the URLs the calls so far returned
    \* ---- one run of the command line (SpecMain)
    m_env,         \* the operation asked for and what the run would meet
    m_steps,       \* the steps of the run so far
    m_ret          \* what main returned, Unset while it runs

vars == <<mode, max_retries, page_size, srcRecords, srcHasPage, pc, attempt,
          page_num, first_page, total_pages, all_results, result, raised,
          log, lastErr, errs, empties, pageOutcome, pageRet, store, storeBefore, call, ret,
          readResult, storeRaised, saved, runs, uploads, t_df, t_result,
          p_raw, p_result, u_params, u_url, m_env, m_steps, m_ret>>

fetchVars == <<mode, max_retries, page_size, srcRecords, srcHasPage, pc, attempt,
               page_num, first_page, total_pages, all_results, result, raised,
               log, lastErr, errs, empties, pageOutcome, pageRet>>

storeVars == <<store, storeBefore, call, ret, readResult, storeRaised, saved>>

concVars == <<runs, uploads>>

transformVars == <<t_df, t_result>>

prepareVars == <<p_raw, p_result>>

urlVars == <<u_params, u_url>>

mainVars == <<m_env, m_steps, m_ret>>
callVars == <<prepareVars, urlVars, mainVars>>

\* The variables of the calls modelled on their own.

\* ------------------------------------------------------------ python values
\* A decoded JSON body is a dict; of its keys the code reads only `results`
\* and `page` (with totalPages, totalRecords). `other` stands for any further
\* key (header, message, ...). A value is a dict, None, or not yet computed.
Dict(hasResults, results, hasPage, totalPages, totalRecords, other) ==
    [type |-> "dict", hasResults |-> hasResults, results |-> results,
     hasPage |-> hasPage, totalPages |-> totalPages,
     totalRecords |-> totalRecords, other |-> other]

None == [type |-> "NoneType", hasResults |-> FALSE, results |-> <<>>,
         hasPage |-> FALSE, totalPages |-> 0, totalRecords |-> 0, other |-> FALSE]

Unset == [type |-> "unset", hasResults |-> FALSE, results |-> <<>>,
          hasPage |-> FALSE, totalPages |-> 0, totalRecords |-> 0, other |-> FALSE]

EmptyDict == Dict(FALSE, <<>>, FALSE, 0, 0, FALSE)

\* Python truthiness of a value: None and {} are falsy.
Truthy(v) == v.type = "dict" /\ (v.hasResults \/ v.hasPage \/ v.other)

\* `'results' in data`
HasResults(v) == v.type = "dict" /\ v.hasResults

\* ------------------------------------------------------------- the upstream
\* The index holds records 1..srcRecords, served page_size per page.
SrcTotalPages == (srcRecords + page_size - 1) \div page_size

Min(a, b) == IF a < b THEN a ELSE b

\* The records of page p, in upstream order.
PageResults(p) ==
    LET lo == (p - 1) * page_size
        hi == Min(p * page_size, srcRecords)
    IN  [i \in 1..(IF hi > lo THEN hi - lo ELSE 0) |-> lo + i]

\* What one request can end in.
Outcomes == {"transport", "http", "badjson", "empty", "noresults", "ok"}

\* The body response.json() decodes for page p under outcome o.
Body(p, o) ==
    CASE o = "ok" ->
            Dict(TRUE, PageResults(p), srcHasPage,
                 IF srcHasPage THEN SrcTotalPages ELSE 0,
                 IF srcHasPage THEN srcRecords ELSE 0, TRUE)
      [] o = "noresults" ->
            Dict(FALSE, <<>>, srcHasPage,
                 IF srcHasPage THEN SrcTotalPages ELSE 0,
                 IF srcHasPage THEN srcRecords ELSE 0, TRUE)
      [] OTHER -> EmptyDict

\* The exception a request raises under outcome o ("none": it raises nothing).
\* A transport error and a non-2xx status (raise_for_status) are
\* requests.RequestException; a body that is no JSON is a JSONDecodeError.
ErrKind(o) ==
    CASE o \in {"transport", "http"} -> "TransportError"
      [] o = "badjson" -> "MalformedResponse"
      [] OTHER -> "none"

\* ---------------------------------------------------------------- history
Pages == 1..MaxRecords

\* Number of events ev logged for page p.
Count(ev, p) == Cardinality({i \in DOMAIN log : log[i] = <<ev, p>>})

NumReq(p) == Count("req", p)

NumBackoff(p) == Count("backoff", p)

\* ------------------------------------------------- the retry loops' decisions
\* `for attempt in range(max_retries)`: the loop body runs for these values.
InRangeOffByOne(att) == att <= max_retries

InRange(att) == att < max_retries

\* `if attempt > 0:` guards the backoff sleep of both retry loops.
NeedsBackoffAlways(att) == att >= 0

NeedsBackoff(att) == att > 0

\* `if attempt == max_retries - 1: return None` of every except clause.
GivesUp(att) == att = max_retries - 1

\* The value a retry loop returns when it gives up: None, whatever the error.
GiveUpValueTagged(kind) == [None EXCEPT !.type = kind]

GiveUpValue(kind) == None

\* extract_data returns a decoded body when it has `results`, or when it is
\* non-empty without them; an empty body falls through to the next attempt.
ReturnsBodyAny(data) == data.type = "dict"

ReturnsBody(data) == (Truthy(data) /\ HasResults(data)) \/ Truthy(data)

\* The events one loop iteration logs: the backoff (if any), then the request.
AttemptEvents(att, p) ==
    (IF NeedsBackoff(att) THEN << <<"backoff", p>> >> ELSE << >>) \o << <<"req", p>> >>

\* ------------------------------------------------------------ extract_data
\* extract_data returned v to its caller: main (mode "single") or
\* extract_all_pages, which goes on with `if not first_page`.
\* `how` records the way the loop ended: "failed" (it gave up or ran out of
\* iterations) or the outcome of the request whose body is returned.
ExtractDataReturn(v, how) ==
    /\ pageRet' = [pageRet EXCEPT ![1] = v]
    /\ pageOutcome' = [pageOutcome EXCEPT ![1] = how]
    /\ attempt' = attempt
    /\ IF mode = "single"
       THEN /\ result' = v
            /\ pc' = "done"
            /\ first_page' = first_page
       ELSE /\ first_page' = v
            /\ pc' = "first_page"
            /\ result' = result

\* One iteration of extract_data's retry loop; the iteration that ends the
\* loop without returning goes on to line 177.
ExtractDataStep ==
    /\ pc = "extract_data"
    /\ UNCHANGED <<mode, max_retries, page_size, srcRecords, srcHasPage,
                   page_num, total_pages, all_results, raised>>
    /\ IF ~InRange(attempt)
       THEN \* range(max_retries) is empty: line 177
            /\ ExtractDataReturn(None, "failed")
            /\ UNCHANGED <<log, lastErr, errs, empties>>
       ELSE \E o \in Outcomes :
            LET data == Body(1, o)
                kind == ErrKind(o)
            IN  /\ log' = log \o AttemptEvents(attempt, 1)
                /\ IF kind # "none"
                   THEN \* one of the except clauses
                        /\ lastErr' = [lastErr EXCEPT ![1] = kind]
                        /\ errs' = [errs EXCEPT ![1] = @ + 1]
                        /\ empties' = empties
                        /\ IF GivesUp(attempt)
                           THEN ExtractDataReturn(GiveUpValue(kind), "failed")
                           ELSE /\ attempt' = attempt + 1
                                /\ UNCHANGED <<pc, first_page, result,
                                               pageRet, pageOutcome>>
                   ELSE IF ReturnsBody(data)
                   THEN /\ ExtractDataReturn(data, o)
                        /\ UNCHANGED <<lastErr, errs, empties>>
                   ELSE \* empty body: nothing returned, next iteration
                        /\ lastErr' = [lastErr EXCEPT ![1] = "EmptyResponse"]
                        /\ errs' = errs
                        /\ empties' = [empties EXCEPT ![1] = @ + 1]
                        /\ IF InRange(attempt + 1)
                           THEN /\ attempt' = attempt + 1
                                /\ UNCHANGED <<pc, first_page, result,
                                               pageRet, pageOutcome>>
                           ELSE \* the loop is over: line 177
                                ExtractDataReturn(None, "failed")

\* ------------------------------------------------------- extract_all_pages
\* `first_page.get('page', {}).get('totalPages', 1)`
TotalPagesOf(v) == IF v.hasPage THEN v.totalPages ELSE 1

\* `if total_pages <= 1: return first_page`
SinglePageOnlyStrict(tp) == tp < 1

SinglePageOnly(tp) == tp <= 1

\* What extract_all_pages returns when the first page could not be had
\* (line 195).
FirstPageFailureEmpty == EmptyDict

FirstPageFailure == None

\* Lines 193-207: what extract_all_pages does with the first page.
FirstPageStep ==
    /\ pc = "first_page"
    /\ UNCHANGED <<mode, max_retries, page_size, srcRecords, srcHasPage,
                   attempt, first_page, log, lastErr, errs, empties, pageOutcome, pageRet>>
    /\ IF ~Truthy(first_page)
       THEN \* `if not first_page: return None`
            /\ result' = FirstPageFailure
            /\ pc' = "done"
            /\ UNCHANGED <<page_num, total_pages, all_results, raised>>
       ELSE IF SinglePageOnly(TotalPagesOf(first_page))
       THEN /\ result' = first_page
            /\ pc' = "done"
            /\ total_pages' = TotalPagesOf(first_page)
            /\ UNCHANGED <<page_num, all_results, raised>>
       ELSE IF ~HasResults(first_page)
       THEN \* `first_page['results']` on a dict without that key
            /\ raised' = "KeyError"
            /\ pc' = "done"
            /\ total_pages' = TotalPagesOf(first_page)
            /\ UNCHANGED <<page_num, all_results, result>>
       ELSE /\ all_results' = first_page.results
            /\ total_pages' = TotalPagesOf(first_page)
            /\ page_num' = 2
            /\ pc' = "page_loop"
            /\ UNCHANGED <<result, raised>>

\* `for page_num in range(2, total_pages + 1)`: the body runs for these values.
InPages(k) == k <= total_pages

\* Lines 211-216: the inter-page delay, then the call of _extract_single_page.
InterPageDelay ==
    /\ pc = "page_loop"
    /\ InPages(page_num)
    /\ log' = Append(log, <<"delay", page_num>>)
    /\ attempt' = 0
    /\ pc' = "single_page"
    /\ UNCHANGED <<mode, max_retries, page_size, srcRecords, srcHasPage,
                   page_num, first_page, total_pages, all_results, result,
                   raised, lastErr, errs, empties, pageOutcome, pageRet>>

\* Lines 217-221: a page's records are appended when the page has `results`.
ExtendResultsFront(all, page_data) ==
    IF Truthy(page_data) /\ HasResults(page_data)
    THEN page_data.results \o all
    ELSE all

ExtendResults(all, page_data) ==
    IF Truthy(page_data) /\ HasResults(page_data)
    THEN all \o page_data.results
    ELSE all

\* The loop goes on with the next page whatever _extract_single_page returned.
NextPageNumAbort(page_data, k) == IF Truthy(page_data) THEN k + 1 ELSE total_pages + 1

NextPageNumStop(page_data, k) ==
    IF HasResults(page_data) THEN k + 1 ELSE total_pages + 1

NextPageNum(page_data, k) == k + 1

\* _extract_single_page returned v to the loop of extract_all_pages.
SinglePageReturn(v, how) ==
    /\ pageRet' = [pageRet EXCEPT ![page_num] = v]
    /\ pageOutcome' = [pageOutcome EXCEPT ![page_num] = how]
    /\ all_results' = ExtendResults(all_results, v)
    /\ page_num' = NextPageNum(v, page_num)
    /\ pc' = "page_loop"
    /\ attempt' = attempt

\* One iteration of _extract_single_page's retry loop (or the loop's end).
SinglePageStep ==
    /\ pc = "single_page"
    /\ UNCHANGED <<mode, max_retries, page_size, srcRecords, srcHasPage,
                   first_page, total_pages, result, raised>>
    /\ IF ~InRange(attempt)
       THEN \* line 260
            /\ SinglePageReturn(None, "failed")
            /\ UNCHANGED <<log, lastErr, errs, empties>>
       ELSE \E o \in Outcomes :
            LET data == Body(page_num, o)
                kind == ErrKind(o)
            IN  /\ log' = log \o AttemptEvents(attempt, page_num)
                /\ IF kind # "none"
                   THEN \* `except Exception`
                        /\ lastErr' = [lastErr EXCEPT ![page_num] = kind]
                        /\ errs' = [errs EXCEPT ![page_num] = @ + 1]
                        /\ empties' = empties
                        /\ IF GivesUp(attempt)
                           THEN SinglePageReturn(GiveUpValue(kind), "failed")
                           ELSE /\ attempt' = attempt + 1
                                /\ UNCHANGED <<pc, page_num, all_results,
                                               pageRet, pageOutcome>>
                   ELSE \* `return data`, whatever was decoded
                        /\ SinglePageReturn(data, o)
                        /\ lastErr' = lastErr
                        /\ errs' = errs
                        /\ empties' = [empties EXCEPT ![page_num] =
                                          IF o = "empty" THEN @ + 1 ELSE @]

\* Lines 224-226: the consolidated envelope is a copy of the first page with
\* its results replaced and page.totalRecords recomputed.
ConsolidatedStale(fp, all) == [fp EXCEPT !.results = all]

Consolidated(fp, all) == [fp EXCEPT !.results = all, !.totalRecords = Len(all)]

\* Lines 223-229: the loop is over.
Consolidate ==
    /\ pc = "page_loop"
    /\ ~InPages(page_num)
    /\ result' = Consolidated(first_page, all_results)
    /\ pc' = "done"
    /\ UNCHANGED <<mode, max_retries, page_size, srcRecords, srcHasPage,
                   attempt, page_num, first_page, total_pages, all_results,
                   raised, log, lastErr, errs, empties, pageOutcome, pageRet>>

\* ---------------------------------------------------- the partitioned store
\* The partition dates a run may be given (partition_date, default today).
\* Day and month swap between the two, so that only the zero padding of the
\* key keeps their digits apart.
Dates == {[year |-> 2024, month |-> 1, day |-> 11],
          [year |-> 2024, month |-> 11, day |-> 1]}

\* The rows a data frame is made of.
RowA == [asset |-> "A", cod |-> "A3", part |-> 1, theoricalQty |-> 10]

RowB == [asset |-> "B", cod |-> "B4", part |-> 2, theoricalQty |-> 20]

\* The data frames handed to the store: the empty frame, a one-row frame,
\* and a frame of two rows that differ in every field.
DataFrames == {<< >>, <<RowA>>, <<RowA, RowB>>}

\* f"{n:02d}": the two decimal digits of n.
Pad2(n) == <<n \div 10, n % 10>>

\* partition_date.strftime('%Y%m%d')
Ymd(d) == <<d.year>> \o Pad2(d.month) \o Pad2(d.day)

\* The key save_to_s3 writes (extract.py line 363).
RawKey(d) ==
    <<"ibovespa-data/year=", d.year, "/month=", Pad2(d.month),
      "/day=", Pad2(d.day), "/ibovespa_", Ymd(d), ".parquet">>

\* The key save_transformed_to_s3 writes (transform.py line 171).
TransformedKeyAsRaw(d) == RawKey(d)

TransformedKey(d) ==
    <<"ibovespa-data-transformed/year=", d.year, "/month=", Pad2(d.month),
      "/day=", Pad2(d.day), "/ibovespa_transformed_", Ymd(d), ".parquet">>

Keys == {RawKey(d) : d \in Dates} \cup {TransformedKey(d) : d \in Dates}

\* `df.columns`; a frame without rows is pd.DataFrame(), which has none.
Columns(df) == IF Len(df) = 0 THEN {} ELSE DOMAIN df[1]

\* df.to_parquet(buffer, index=False): the frame laid out column by column.
ToParquet(df) ==
    [num_rows |-> Len(df),
     columns  |-> Columns(df),
     data     |-> [c \in Columns(df) |-> [i \in 1..Len(df) |-> df[i][c]]]]

\* pd.read_parquet(BytesIO(body)): the rows rebuilt from the columns, read
\* back in the order of the cells.
ReadParquetReversed(b) ==
    [i \in 1..b.num_rows |-> [c \in b.columns |-> b.data[c][b.num_rows + 1 - i]]]

ReadParquet(b) ==
    [i \in 1..b.num_rows |-> [c \in b.columns |-> b.data[c][i]]]

NoDate == [year |-> 0, month |-> 0, day |-> 0]

\* No object under a key.
Absent == [present |-> FALSE, body |-> ToParquet(<< >>), source |-> "",
           record_count |-> 0, date |-> NoDate]

\* The object an upload stores: the frame as parquet (index dropped) and the
\* metadata of ExtraArgs.
Object(df, source, d) ==
    [present |-> TRUE, body |-> ToParquet(df), source |-> source,
     record_count |-> Len(df), date |-> d]

\* ------------------------------------------------------------ transform_data
\* A missing value of a text column (None) and of a numeric column (NaN).
Missing == "<missing>"

NaN == -1

\* required_columns
RequiredColumns == {"asset", "cod", "part", "theoricalQty"}

MissingColumns(df) == RequiredColumns \ Columns(df)

\* The asset values in ascending order, the order groupby sorts its keys in.
AssetOrder == <<"A", "B">>

\* groupby('asset') and its keys: one per asset value that occurs, in sorted
\* order; rows whose asset is missing belong to no group (dropna=True).
GroupKeysPerRow(df) == [i \in 1..Len(df) |-> df[i].asset]

GroupKeys(df) ==
    SelectSeq(AssetOrder, LAMBDA k : \E i \in 1..Len(df) : df[i].asset = k)

Group(df, k) == SelectSeq(df, LAMBDA r : r.asset = k)

\* 'cod': 'count' counts the cells of the group that hold a value.
CountValues(rows, col) ==
    Cardinality({i \in 1..Len(rows) : rows[i][col] # Missing})

\* 'sum' adds the cells of the group that hold a value (skipna); a group
\* without any sums to 0.
RECURSIVE SumPropagateNa(_, _)
SumPropagateNa(rows, col) ==
    IF rows = << >> THEN 0
    ELSE IF Head(rows)[col] = NaN \/ SumPropagateNa(Tail(rows), col) = NaN THEN NaN
    ELSE Head(rows)[col] + SumPropagateNa(Tail(rows), col)

RECURSIVE SumValues(_, _)
SumValues(rows, col) ==
    IF rows = << >> THEN 0
    ELSE (IF Head(rows)[col] = NaN THEN 0 ELSE Head(rows)[col])
         + SumValues(Tail(rows), col)

\* One row of the result: the renamed aggregates and the `data` column.
AggregateRow(df, k) ==
    LET group == Group(df, k)
    IN  [acao              |-> k,
         qtd_codigo        |-> CountValues(group, "cod"),
         participacao      |-> SumValues(group, "part"),
         qtd_teorica_total |-> SumValues(group, "theoricalQty"),
         data              |-> "today"]

\* What transform_data ends in when a required column is missing: the
\* ValueError of line 109, logged and raised again at line 145.
AbortedSilently == [raised |-> "none", rows |-> << >>]

Aborted == [raised |-> "ValueError", rows |-> << >>]

\* transform_data was not called.
NotRun == [raised |-> "unset", rows |-> << >>]

\* B3DataTransformer.transform_data(df)
TransformData(df) ==
    IF MissingColumns(df) # {} THEN Aborted
    ELSE LET keys == GroupKeys(df)
         IN  [raised |-> "none",
              rows   |-> [j \in 1..Len(keys) |-> AggregateRow(df, keys[j])]]

\* ------------------------------------------------------- the store's calls
\* What upload_fileobj can end in.
S3Outcomes == {"ok", "NoCredentialsError", "ClientError", "Exception"}

\* `df.empty`
DfEmptyNever(df) == FALSE

DfEmpty(df) == Len(df) = 0

NoCall == [op |-> "none", df |-> << >>, date |-> NoDate, s3 |-> "ok",
           target |-> NoDate, s3w |-> "none"]

\* upload_fileobj puts the whole object under the key, in place of what the
\* key held.
UploadedAppend(st, key, obj) ==
    [st EXCEPT ![key] =
        [obj EXCEPT !.body = ToParquet(ReadParquet(st[key].body)
                                       \o ReadParquet(obj.body))]]

Uploaded(st, key, obj) == [st EXCEPT ![key] = obj]

\* The exception that leaves a writer whose upload ended in s3: each of
\* NoCredentialsError, ClientError and Exception has its handler.
SaveRaisedUncaught(s3) == IF s3 = "Exception" THEN "Exception" ELSE "none"

SaveRaised(s3) == "none"

\* Whether a writer uploads and returns True.
SaveOk(df, s3) == ~DfEmpty(df) /\ s3 = "ok"

\* The store a writer leaves behind.
StoreAfterSave(st, key, source, df, d, s3) ==
    IF SaveOk(df, s3) THEN Uploaded(st, key, Object(df, source, d)) ELSE st

\* What read_from_s3 returns: a frame, or None.
NoRead == [type |-> "unset", rows |-> << >>]

NoneFrame == [type |-> "NoneType", rows |-> << >>]

Frame(rows) == [type |-> "DataFrame", rows |-> rows]

\* The body shared by save_to_s3 and save_transformed_to_s3: nothing is
\* uploaded for an empty frame; a failed upload is caught and reported False.
Save(op, key, source, df, d, s3) ==
    /\ call' = [op |-> op, df |-> df, date |-> d, s3 |-> s3,
                target |-> NoDate, s3w |-> "none"]
    /\ storeBefore' = store
    /\ store' = StoreAfterSave(store, key, source, df, d, s3)
    /\ ret' = SaveOk(df, s3)
    /\ storeRaised' = IF DfEmpty(df) THEN "none" ELSE SaveRaised(s3)
    /\ readResult' = NoRead
    /\ saved' = IF op = "save_to_s3" /\ SaveOk(df, s3)
                THEN [saved EXCEPT ![d] = df] ELSE saved

\* B3DataExtractor.save_to_s3(df, partition_date)
SaveToS3 ==
    \E df \in DataFrames, d \in Dates, s3 \in S3Outcomes :
        Save("save_to_s3", RawKey(d), "b3-ibovespa", df, d, s3)

\* The frames transform_data yields from the frames of the raw store.
TransformedFrames == {TransformData(df).rows : df \in DataFrames}

\* B3DataTransformer.save_transformed_to_s3(df, partition_date)
SaveTransformedToS3 ==
    \E df \in TransformedFrames, d \in Dates, s3 \in S3Outcomes :
        Save("save_transformed_to_s3", TransformedKey(d),
             "b3-ibovespa-transformed", df, d, s3)

\* The key read_from_s3 looks up (transform.py line 65).
ReadKeyUnpadded(d) ==
    <<"ibovespa-data/year=", d.year,
      "/month=", IF d.month < 10 THEN <<d.month>> ELSE Pad2(d.month),
      "/day=", IF d.day < 10 THEN <<d.day>> ELSE Pad2(d.day),
      "/ibovespa_", Ymd(d), ".parquet">>

ReadKey(d) ==
    <<"ibovespa-data/year=", d.year, "/month=", Pad2(d.month),
      "/day=", Pad2(d.day), "/ibovespa_", Ymd(d), ".parquet">>

\* The object get_object finds under a key.
Lookup(st, key) == IF key \in DOMAIN st THEN st[key] ELSE Absent

\* What get_object ends in: the failure s3 of the store, and with the store
\* answering the ClientError NoSuchKey when nothing is under the key.
GetOutcome(obj, s3) ==
    IF s3 # "ok" THEN s3 ELSE IF obj.present THEN "ok" ELSE "NoSuchKey"

ReadFailures == {"NoSuchKey", "NoCredentialsError", "ClientError", "Exception"}

\* The value read_from_s3 returns: the decoded frame, and None from the
\* handlers of ClientError (NoSuchKey or not) and of Exception alike.
ReadValueTagged(outcome, obj) ==
    IF outcome = "ok" THEN Frame(ReadParquet(obj.body))
    ELSE [type |-> outcome, rows |-> << >>]

ReadValue(outcome, obj) ==
    IF outcome = "ok" THEN Frame(ReadParquet(obj.body)) ELSE NoneFrame

\* The exception that leaves read_from_s3.
ReadRaisedNotFound(outcome) ==
    IF outcome = "NoSuchKey" THEN "ClientError" ELSE "none"

ReadRaised(outcome) == "none"

\* B3DataTransformer.read_from_s3(partition_date)
ReadFromS3 ==
    \E d \in Dates, s3 \in S3Outcomes :
        LET obj     == Lookup(store, ReadKey(d))
            outcome == GetOutcome(obj, s3)
        IN  /\ call' = [op |-> "read_from_s3", df |-> << >>, date |-> d,
                        s3 |-> s3, target |-> NoDate, s3w |-> "none"]
            /\ storeBefore' = store
            /\ store' = store
            /\ ret' = FALSE
            /\ storeRaised' = ReadRaised(outcome)
            /\ readResult' = IF ReadRaised(outcome) = "none"
                             THEN ReadValue(outcome, obj) ELSE NoRead
            /\ saved' = saved

\* Whether transform_and_save reaches the upload of save_transformed_to_s3:
\* the read gave a frame, transform_data returned, and its frame has rows.
ReachesUpload(df, t) ==
    df.type = "DataFrame" /\ t.raised = "none" /\ ~DfEmpty(t.rows)

\* B3DataTransformer.transform_and_save(source_date, target_date): s3 is what
\* the read's get_object ends in, s3w what the upload ends in when the call
\* gets that far ("none" when it does not).  An exception of transform_data
\* is caught at line 242.
TransformAndSave ==
    \E src \in Dates, s3 \in S3Outcomes :
        LET obj == Lookup(store, ReadKey(src))
            df  == ReadValue(GetOutcome(obj, s3), obj)
            t   == IF df.type = "DataFrame" THEN TransformData(df.rows)
                   ELSE NotRun
            up  == ReachesUpload(df, t)
        IN  \E tgt \in Dates,
               s3w \in IF up THEN S3Outcomes ELSE {"none"} :
                /\ call' = [op |-> "transform_and_save", df |-> << >>,
                            date |-> src, s3 |-> s3,
                            target |-> tgt, s3w |-> s3w]
                /\ storeBefore' = store
                /\ store' = IF up
                            THEN StoreAfterSave(store, TransformedKey(tgt),
                                     "b3-ibovespa-transformed", t.rows, tgt, s3w)
                            ELSE store
                /\ ret' = (up /\ SaveOk(t.rows, s3w))
                /\ storeRaised' = "none"
                /\ readResult' = NoRead
                /\ saved' = saved

\* No concurrent runs and no call of transform_data are under way.
NoRun == [pc |-> "done", df |-> << >>, date |-> NoDate, ret |-> FALSE]

Runs == {1, 2}

ConcIdle == runs = [i \in Runs |-> NoRun] /\ uploads = << >>

TransformIdle == t_df = << >> /\ t_result = NotRun

\* No call of prepare_dataframe or _build_api_url and no run of the command
\* line are under way.
NoEnvelope == [type |-> "unset",
               results |-> [kind |-> "absent", n |-> 0, items |-> << >>],
               header |-> "absent"]

NotPrepared == [raised |-> "unset", logged |-> "", columns |-> {},
                rows |-> << >>]

PrepareIdle == p_raw = NoEnvelope /\ p_result = NotPrepared

NoParams == [page_number |-> 0, page_size |-> 0,
             language |-> << >>, index |-> << >>]

UrlIdle == u_params = NoParams /\ u_url = << >>

NoEnv == [operation |-> "none", storage_type |-> "s3", bucket_set |-> FALSE,
          all_pages |-> FALSE, fetch |-> "none", rows |-> "none",
          upload |-> "ok"]

MainIdle == m_env = NoEnv /\ m_steps = << >> /\ m_ret = "unset"

CallsIdle == PrepareIdle /\ UrlIdle /\ MainIdle

StoreInit ==
    /\ store = [k \in Keys |-> Absent]
    /\ storeBefore = [k \in Keys |-> Absent]
    /\ call = NoCall
    /\ ret = FALSE
    /\ readResult = NoRead
    /\ storeRaised = "none"
    /\ saved = [d \in Dates |-> << >>]

\* ------------------------------------------------------- the retriever's run
Init ==
    /\ mode \in {"single", "all"}
    /\ max_retries \in 0..MaxRetriesBound
    /\ srcRecords \in 0..MaxRecords
    /\ page_size \in 1..MaxRecords
    /\ srcHasPage \in BOOLEAN
    /\ pc = "extract_data"
    /\ attempt = 0
    /\ page_num = 1
    /\ first_page = Unset
    /\ total_pages = 1
    /\ all_results = << >>
    /\ result = Unset
    /\ raised = "none"
    /\ log = << >>
    /\ lastErr = [p \in Pages |-> "none"]
    /\ errs = [p \in Pages |-> 0]
    /\ empties = [p \in Pages |-> 0]
    /\ pageOutcome = [p \in Pages |-> "pending"]
    /\ pageRet = [p \in Pages |-> Unset]
    /\ StoreInit
    /\ ConcIdle
    /\ TransformIdle
    /\ CallsIdle

Next ==
    \/ (ExtractDataStep /\ UNCHANGED <<storeVars, concVars, transformVars, callVars>>)
    \/ (FirstPageStep /\ UNCHANGED <<storeVars, concVars, transformVars, callVars>>)
    \/ (InterPageDelay /\ UNCHANGED <<storeVars, concVars, transformVars, callVars>>)
    \/ (SinglePageStep /\ UNCHANGED <<storeVars, concVars, transformVars, callVars>>)
    \/ (Consolidate /\ UNCHANGED <<storeVars, concVars, transformVars, callVars>>)

Spec == Init /\ [][Next]_vars

\* A run is not suspended for ever: each call, sleep and request returns.
FairSpec == Spec /\ WF_vars(Next)

\* ------------------------------------------------------------ the store's run
\* No retrieval is running while the store is exercised.
FetchIdle ==
    /\ mode = "single"
    /\ max_retries = 0
    /\ srcRecords = 0
    /\ page_size = 1
    /\ srcHasPage = FALSE
    /\ pc = "done"
    /\ attempt = 0
    /\ page_num = 1
    /\ first_page = Unset
    /\ total_pages = 1
    /\ all_results = << >>
    /\ result = Unset
    /\ raised = "none"
    /\ log = << >>
    /\ lastErr = [p \in Pages |-> "none"]
    /\ errs = [p \in Pages |-> 0]
    /\ empties = [p \in Pages |-> 0]
    /\ pageOutcome = [p \in Pages |-> "pending"]
    /\ pageRet = [p \in Pages |-> Unset]

InitStore ==
    /\ FetchIdle
    /\ StoreInit
    /\ ConcIdle
    /\ TransformIdle
    /\ CallsIdle

NextStore ==
    \/ (SaveToS3 /\ UNCHANGED <<fetchVars, concVars, transformVars, callVars>>)
    \/ (SaveTransformedToS3 /\ UNCHANGED <<fetchVars, concVars, transformVars, callVars>>)
    \/ (ReadFromS3 /\ UNCHANGED <<fetchVars, concVars, transformVars, callVars>>)
    \/ (TransformAndSave /\ UNCHANGED <<fetchVars, concVars, transformVars, callVars>>)

SpecStore == InitStore /\ [][NextStore]_vars

\* ------------------------------------------- two runs writing concurrently
\* save_to_s3 in two steps: the frame is serialised into the run's own buffer
\* (lines 351-368), then upload_fileobj puts the buffer under the key (lines
\* 370-388).  The store replaces an object in one step.
Serialize(i) ==
    /\ runs[i].pc = "start"
    /\ runs' = [runs EXCEPT ![i].pc =
                    IF DfEmpty(runs[i].df) THEN "done" ELSE "buffered"]
    /\ UNCHANGED <<uploads, storeVars>>

Upload(i) ==
    /\ runs[i].pc = "buffered"
    /\ \E s3 \in S3Outcomes :
        LET df == runs[i].df
            d  == runs[i].date
        IN  /\ store' = StoreAfterSave(store, RawKey(d), "b3-ibovespa", df, d, s3)
            /\ runs' = [runs EXCEPT ![i].pc = "done", ![i].ret = SaveOk(df, s3)]
            /\ uploads' = IF SaveOk(df, s3) THEN Append(uploads, i) ELSE uploads
            /\ saved' = IF SaveOk(df, s3) THEN [saved EXCEPT ![d] = df] ELSE saved
    /\ UNCHANGED <<storeBefore, call, ret, readResult, storeRaised>>

InitConcurrent ==
    /\ FetchIdle
    /\ StoreInit
    /\ TransformIdle
    /\ CallsIdle
    /\ runs \in [Runs -> {[pc |-> "start", df |-> df, date |-> d, ret |-> FALSE] :
                             df \in DataFrames, d \in Dates}]
    /\ uploads = << >>

\* The two writers, and a reader that may look at any moment.
NextConcurrent ==
    \/ \E i \in Runs : Serialize(i) /\ UNCHANGED <<fetchVars, transformVars, callVars>>
    \/ \E i \in Runs : Upload(i) /\ UNCHANGED <<fetchVars, transformVars, callVars>>
    \/ (ReadFromS3 /\ UNCHANGED <<fetchVars, concVars, transformVars, callVars>>)

SpecConcurrent == InitConcurrent /\ [][NextConcurrent]_vars

\* ------------------------------------------------------ the transformer's run
\* The cells a row of the raw snapshot may hold; a cell may be missing.
AssetValues == {"A", "B", Missing}

CodValues == {"A3", Missing}

PartValues == {1, NaN}

QtyValues == {10, NaN}

\* The rows of a frame with every required column, and of the frames that
\* lack one of them.
FullRows == [asset : AssetValues, cod : CodValues,
             part : PartValues, theoricalQty : QtyValues]

RowsNoAsset == [cod : CodValues, part : PartValues, theoricalQty : QtyValues]

RowsNoCod == [asset : AssetValues, part : PartValues, theoricalQty : QtyValues]

RowsNoPart == [asset : AssetValues, cod : CodValues, theoricalQty : QtyValues]

RowsNoQty == [asset : AssetValues, cod : CodValues, part : PartValues]

RowSets == {FullRows, RowsNoAsset, RowsNoCod, RowsNoPart, RowsNoQty}

InputFrames == UNION {UNION {[1..n -> R] : n \in 0..MaxRows} : R \in RowSets}

\* date.today(), the partition transform_and_save() reads and writes when
\* main calls it without dates.
Today == [year |-> 2024, month |-> 1, day |-> 11]

\* transform_data(df) called on the frame.
TransformDataStep ==
    /\ t_result = NotRun
    /\ t_result' = TransformData(t_df)
    /\ UNCHANGED <<t_df, storeVars>>

\* main.transform_data: one transform_and_save() over today's partition.
TransformAndSaveToday ==
    /\ call = NoCall
    /\ TransformAndSave
    /\ call'.date = Today
    /\ call'.target = Today
    /\ UNCHANGED transformVars

\* The frame handed to transform_data is the snapshot stored for today (an
\* empty frame is never stored).
InitTransform ==
    /\ FetchIdle
    /\ ConcIdle
    /\ CallsIdle
    /\ t_df \in InputFrames
    /\ t_result = NotRun
    /\ store = [k \in Keys |->
                   IF k = RawKey(Today) /\ ~DfEmpty(t_df)
                   THEN Object(t_df, "b3-ibovespa", Today) ELSE Absent]
    /\ storeBefore = store
    /\ call = NoCall
    /\ ret = FALSE
    /\ readResult = NoRead
    /\ storeRaised = "none"
    /\ saved = [d \in Dates |-> IF d = Today THEN t_df ELSE << >>]

NextTransform ==
    \/ (TransformDataStep /\ UNCHANGED <<fetchVars, concVars, callVars>>)
    \/ (TransformAndSaveToday /\ UNCHANGED <<fetchVars, concVars, callVars>>)

SpecTransform == InitTransform /\ [][NextTransform]_vars

\* ------------------------------------------------------- prepare_dataframe
\* A text is the sequence of its characters.
DigitChars == <<"0", "1", "2", "3", "4", "5", "6", "7", "8", "9">>

Digits == {DigitChars[i] : i \in DOMAIN DigitChars}

\* The characters the pattern [^\d,.-] leaves in place.
KeptChars == Digits \cup {",", ".", "-"}

\* A cell of a record: a text, or the null of a record that has no value.
Text(chars) == [null |-> FALSE, chars |-> chars]

NullCell == [null |-> TRUE, chars |-> << >>]

\* Series.astype(str): a text stays as it is, a null becomes the text None.
AsTypeStr(cell) == IF cell.null THEN <<"N", "o", "n", "e">> ELSE cell.chars

\* .str.replace(r'[^\d,.-]', '', regex=True)
StrReplaceNonNumeric(s) == SelectSeq(s, LAMBDA c : c \in KeptChars)

\* A .str.replace(',', '.') that replaces nothing.
StrReplaceCommaNone(s) == s

\* .str.replace(',', '.')
StrReplaceComma(s) == [i \in DOMAIN s |-> IF s[i] = "," THEN "." ELSE s[i]]

\* The float NaN pd.to_numeric(errors='coerce') puts where a text does not
\* parse.
NaNValue == [nan |-> TRUE, neg |-> FALSE, mantissa |-> 0, scale |-> 0]

DigitValue(c) == (CHOOSE i \in DOMAIN DigitChars : DigitChars[i] = c) - 1

RECURSIVE IntOf(_)
IntOf(digs) ==
    IF digs = << >> THEN 0
    ELSE IntOf(SubSeq(digs, 1, Len(digs) - 1)) * 10
         + DigitValue(digs[Len(digs)])

\* The number mantissa / 10^scale in lowest terms: 2.50 and 2.5 are one float.
RECURSIVE Normalize(_)
Normalize(v) ==
    IF v.mantissa = 0
    THEN [nan |-> FALSE, neg |-> FALSE, mantissa |-> 0, scale |-> 0]
    ELSE IF v.scale > 0 /\ v.mantissa % 10 = 0
    THEN Normalize([v EXCEPT !.mantissa = v.mantissa \div 10,
                             !.scale = v.scale - 1])
    ELSE v

\* pd.to_numeric(errors='coerce') on a text of digits, periods and minus
\* signs: an optional leading minus, digits with at most one period among
\* them and at least one digit; anything else is NaN.
ToNumeric(s) ==
    LET neg  == Len(s) > 0 /\ s[1] = "-"
        body == IF neg THEN Tail(s) ELSE s
        dots == {i \in DOMAIN body : body[i] = "."}
        digs == SelectSeq(body, LAMBDA c : c \in Digits)
    IN  IF /\ Cardinality(dots) <= 1
           /\ Len(digs) >= 1
           /\ \A i \in DOMAIN body : body[i] \in Digits \cup {"."}
        THEN Normalize([nan |-> FALSE, neg |-> neg, mantissa |-> IntOf(digs),
                        scale |-> IF dots = {} THEN 0
                                  ELSE Len(body) - (CHOOSE i \in dots : TRUE)])
        ELSE NaNValue

\* The three statements of the numeric_columns loop on one cell.
CleanNumeric(cell) ==
    ToNumeric(StrReplaceComma(StrReplaceNonNumeric(AsTypeStr(cell))))

\* .str.strip(): the text from its first to its last character that is not
\* a blank.
StrStrip(s) ==
    LET inked == {i \in DOMAIN s : s[i] # " "}
    IN  IF inked = {} THEN << >>
        ELSE SubSeq(s, CHOOSE i \in inked : \A j \in inked : i <= j,
                       CHOOSE i \in inked : \A j \in inked : j <= i)

\* The two statements of the string_columns loop on one cell: the text None
\* is replaced by a null.
CleanString(cell) ==
    LET t == StrStrip(AsTypeStr(cell))
    IN  IF t = <<"N", "o", "n", "e">> THEN NullCell ELSE Text(t)

\* _clean_dataframe on one row.
CleanRow(r) ==
    [r EXCEPT !.part = CleanNumeric(r.part),
              !.theoricalQty = CleanNumeric(r.theoricalQty),
              !.cod = CleanString(r.cod)]

\* A dict.get('results', []): the default is the empty list.
GetResults(raw) ==
    IF raw.results.kind = "absent"
    THEN [kind |-> "list", n |-> 0, items |-> << >>]
    ELSE raw.results

\* A test of the results that never finds them empty.
NoResultsNever(results) == FALSE

\* not results: None, an empty list and the number 0 are all falsy.
NoResults(results) ==
    \/ results.kind = "null"
    \/ results.kind = "list" /\ results.items = << >>
    \/ results.kind = "int" /\ results.n = 0

\* The exception of the body of the try, "none" when it runs to its end:
\* None has no get, pd.DataFrame refuses a scalar, a header that is a text
\* has no get.
PrepareException(raw) ==
    IF raw.type # "dict" THEN "AttributeError"
    ELSE IF NoResults(GetResults(raw)) THEN "none"
    ELSE IF GetResults(raw).kind = "int" THEN "ValueError"
    ELSE IF raw.header = "text" THEN "AttributeError"
    ELSE "none"

\* A handler that lets the exception through.
PrepareRaisedUncaught(exc) == exc

\* except Exception: every exception of the body is caught.
PrepareRaised(exc) == "none"

\* Columns of the frame built from the records, with the metadata columns
\* and, when there is a header, the header's columns.
FrameColumns(raw) ==
    {"cod", "part", "theoricalQty", "extraction_date",
     "extraction_timestamp"}
    \cup (IF raw.header = "dict"
          THEN {"data_date", "total_theoretical_qty", "reductor"} ELSE {})

\* pd.DataFrame(results): one row per record, in order; None gives the
\* empty frame.
FrameRows(results) == IF results.kind = "list" THEN results.items ELSE << >>

\* pd.DataFrame()
EmptyFrame(logged) ==
    [raised |-> "none", logged |-> logged, columns |-> {}, rows |-> << >>]

\* prepare_dataframe(raw_data)
PrepareDataframe(raw) ==
    LET exc == PrepareException(raw)
    IN  IF exc # "none"
        THEN [EmptyFrame("error") EXCEPT !.raised = PrepareRaised(exc)]
        ELSE IF NoResults(GetResults(raw)) THEN EmptyFrame("warning")
        ELSE LET rows == FrameRows(GetResults(raw))
             IN  [raised |-> "none", logged |-> "info",
                  columns |-> FrameColumns(raw),
                  rows |-> [i \in DOMAIN rows |-> CleanRow(rows[i])]]

\* The characters the cells of the inputs are made of.
Alphabet == {"2", ",", ".", "-", "a"}

\* The texts of the cells, of up to len characters, and the texts 2,85 and
\* abc.
Texts(len) ==
    UNION {[1..n -> Alphabet] : n \in 0..len}
    \cup {<<"2", ",", "8", "5">>, <<"a", "b", "c">>}

CodTexts == {<<"A", "3">>, <<" ", "A", "3", " ">>, <<"N", "o", "n", "e">>}

\* A record whose numeric cells are both well formed.
PlainRecord(cod) ==
    [cod |-> Text(cod), part |-> Text(<<"2", ",", "5">>),
     theoricalQty |-> Text(<<"5", "2">>)]

\* The records of the inputs: one numeric cell is any text or null, the
\* other is well formed.
Records(len) ==
    {[PlainRecord(<<"A", "3">>) EXCEPT !.part = c] :
        c \in {Text(t) : t \in Texts(len)} \cup {NullCell}}
    \cup {[PlainRecord(<<"A", "3">>) EXCEPT !.theoricalQty = Text(t)] :
            t \in Texts(len)}

\* The envelopes prepare_dataframe is called with: None, and dicts whose
\* results are absent, null, a number or a list, with or without a header
\* (the lists of one record without, the lists of two records with).
Envelopes(len) ==
    {[NoEnvelope EXCEPT !.type = "NoneType"]}
    \cup {[type |-> "dict",
           results |-> [kind |-> k, n |-> 0, items |-> << >>],
           header |-> h] :
            k \in {"absent", "null", "list", "int"},
            h \in {"absent", "dict", "text"}}
    \cup {[type |-> "dict",
           results |-> [kind |-> "int", n |-> 5, items |-> << >>],
           header |-> h] : h \in {"absent", "dict"}}
    \cup {[type |-> "dict",
           results |-> [kind |-> "list", n |-> 0, items |-> l],
           header |-> "absent"] : l \in {<<r>> : r \in Records(len)}}
    \cup {[type |-> "dict",
           results |-> [kind |-> "list", n |-> 0, items |-> l],
           header |-> "dict"] :
            l \in {<<r, PlainRecord(c)>> :
                      r \in Records(len), c \in CodTexts}}
    \cup {[type |-> "dict",
           results |-> [kind |-> "list", n |-> 0,
                        items |-> <<PlainRecord(<<"A", "3">>)>>],
           header |-> "text"]}

\* prepare_dataframe(raw_data) called once on the envelope.
PrepareStep ==
    /\ p_result = NotPrepared
    /\ p_result' = PrepareDataframe(p_raw)
    /\ UNCHANGED p_raw

InitPrepare ==
    /\ FetchIdle
    /\ StoreInit
    /\ ConcIdle
    /\ TransformIdle
    /\ UrlIdle
    /\ MainIdle
    /\ p_raw \in Envelopes(MaxLen)
    /\ p_result = NotPrepared

NextPrepare ==
    PrepareStep /\ UNCHANGED <<fetchVars, storeVars, concVars,
                                transformVars, urlVars, mainVars>>

SpecPrepare == InitPrepare /\ [][NextPrepare]_vars


\* ----------------------------------------------------------- _build_api_url
\* Largest page_number _build_api_url is called with.
MaxPageNumber == 3
\* Largest number of calls of _build_api_url with the same parameters.
MaxCalls == 2

\* The printable ASCII characters, from code 32 to code 126 (the grave accent
\* of code 96 is written by its name).
Ascii ==
    <<" ", "!", "\"", "#", "$", "%", "&", "'", "(", ")", "*", "+", ",",
      "-", ".", "/", "0", "1", "2", "3", "4", "5", "6", "7", "8", "9", ":",
      ";", "<", "=", ">", "?", "@", "A", "B", "C", "D", "E", "F", "G", "H",
      "I", "J", "K", "L", "M", "N", "O", "P", "Q", "R", "S", "T", "U", "V",
      "W", "X", "Y", "Z", "[", "\\", "]", "^", "_", "grave", "a", "b", "c",
      "d", "e", "f", "g", "h", "i", "j", "k", "l", "m", "n", "o", "p", "q",
      "r", "s", "t", "u", "v", "w", "x", "y", "z", "{", "|", "}", "~">>

\* str.encode('utf-8') of an ASCII text: the codes of its characters.
Utf8Encode(s) ==
    [i \in DOMAIN s |-> 31 + (CHOOSE k \in DOMAIN Ascii : Ascii[k] = s[i])]

\* The alphabet of base64.b64encode.
B64Alphabet ==
    <<"A", "B", "C", "D", "E", "F", "G", "H", "I", "J", "K", "L", "M", "N",
      "O", "P", "Q", "R", "S", "T", "U", "V", "W", "X", "Y", "Z", "a", "b",
      "c", "d", "e", "f", "g", "h", "i", "j", "k", "l", "m", "n", "o", "p",
      "q", "r", "s", "t", "u", "v", "w", "x", "y", "z", "0", "1", "2", "3",
      "4", "5", "6", "7", "8", "9", "+", "/">>

B64Char(sextet) == B64Alphabet[sextet + 1]

\* base64.b64encode(bytes).decode('utf-8'): three bytes give four characters,
\* a last group of one or two bytes is padded with =.
RECURSIVE B64Encode(_)
B64Encode(bytes) ==
    IF bytes = << >> THEN << >>
    ELSE IF Len(bytes) = 1
    THEN <<B64Char(bytes[1] \div 4), B64Char((bytes[1] % 4) * 16), "=", "=">>
    ELSE IF Len(bytes) = 2
    THEN <<B64Char(bytes[1] \div 4),
           B64Char((bytes[1] % 4) * 16 + bytes[2] \div 16),
           B64Char((bytes[2] % 16) * 4), "=">>
    ELSE <<B64Char(bytes[1] \div 4),
           B64Char((bytes[1] % 4) * 16 + bytes[2] \div 16),
           B64Char((bytes[2] % 16) * 4 + bytes[3] \div 64),
           B64Char(bytes[3] % 64)>>
         \o B64Encode(SubSeq(bytes, 4, Len(bytes)))

\* json.dumps of an int.
RECURSIVE NatChars(_)
NatChars(n) ==
    IF n < 10 THEN <<DigitChars[n + 1]>>
    ELSE NatChars(n \div 10) \o <<DigitChars[(n % 10) + 1]>>

IntChars(n) == IF n < 0 THEN <<"-">> \o NatChars(0 - n) ELSE NatChars(n)

\* json.dumps of a str of letters, digits and hyphens: the text in quotes.
StrChars(s) == <<"\"">> \o s \o <<"\"">>

\* A params dict that keeps the default page_number.
ParamsFirstPage(p) ==
    [pageNumber |-> 1, pageSize |-> p.page_size,
     language |-> p.language, index |-> p.index]

\* The params dict of _build_api_url(page_number).
Params(p) ==
    [pageNumber |-> p.page_number, pageSize |-> p.page_size,
     language |-> p.language, index |-> p.index]

\* json.dumps(params, separators=(',', ':')): the keys in the order of the
\* dict literal.
JsonDumps(params) ==
    <<"{">> \o
    <<"\"", "p", "a", "g", "e", "N", "u", "m", "b", "e", "r", "\"", ":">> \o IntChars(params.pageNumber) \o
    <<",", "\"", "p", "a", "g", "e", "S", "i", "z", "e", "\"", ":">> \o IntChars(params.pageSize) \o
    <<",", "\"", "l", "a", "n", "g", "u", "a", "g", "e", "\"", ":">> \o StrChars(params.language) \o
    <<",", "\"", "i", "n", "d", "e", "x", "\"", ":">> \o StrChars(params.index) \o <<"}">>

\* self.base_api_url
BaseApiUrl ==
    <<"h", "t", "t", "p", "s", ":", "/", "/", "s", "i", "s", "t", "e", "m",
      "a", "s", "w", "e", "b", "b", "3", "-", "l", "i", "s", "t", "a", "d",
      "o", "s", ".", "b", "3", ".", "c", "o", "m", ".", "b", "r", "/", "i",
      "n", "d", "e", "x", "P", "r", "o", "x", "y", "/", "i", "n", "d", "e",
      "x", "C", "a", "l", "l", "/", "G", "e", "t", "P", "o", "r", "t", "f",
      "o", "l", "i", "o", "D", "a", "y">>

\* _build_api_url(page_number) with self.page_size, self.language and
\* self.index: no parameter is validated.
BuildApiUrlOf(p) ==
    BaseApiUrl \o <<"/">> \o B64Encode(Utf8Encode(JsonDumps(Params(p))))

\* One call of _build_api_url; u_url holds the values returned so far.
BuildApiUrl ==
    /\ Len(u_url) < MaxCalls
    /\ u_url' = Append(u_url, BuildApiUrlOf(u_params))
    /\ UNCHANGED u_params

\* The extractor is built with a language tag, an index tag and a page size
\* inside or outside 1..1200, the range the API accepts.
InitUrl ==
    /\ FetchIdle
    /\ StoreInit
    /\ ConcIdle
    /\ TransformIdle
    /\ PrepareIdle
    /\ MainIdle
    /\ u_params \in
          [page_number : 1..MaxPageNumber,
           page_size : {0 - 1, 0, 1, 100, 1200, 1201},
           language : {<<"p", "t", "-", "b", "r">>,
                       <<"e", "n", "-", "u", "s">>},
           index : {<<"I", "B", "O", "V">>, <<"S", "M", "L", "L">>,
                    <<"I", "B", "r", "X", "1", "0", "0">>}]
    /\ u_url = << >>

NextUrl ==
    BuildApiUrl /\ UNCHANGED <<fetchVars, storeVars, concVars,
                                transformVars, prepareVars, mainVars>>

SpecUrl == InitUrl /\ [][NextUrl]_vars

\* ------------------------------------------------------------------ main.py
\* The parameters of B3DataExtractor.__init__ and the keywords
\* main.extract_data passes to it.
CtorParams == {"s3_bucket", "page_size", "index", "language", "aws_region"}

MainKwargs == {"storage_type", "s3_bucket", "local_root", "page_size",
               "index", "language", "aws_region"}

\* B3DataExtractor(**kwargs): a keyword that names no parameter, or no
\* s3_bucket, is a TypeError.
CtorException(kwargs) ==
    IF kwargs \subseteq CtorParams /\ "s3_bucket" \in kwargs
    THEN "none" ELSE "TypeError"

\* The methods of B3DataExtractor.
ExtractorMethods ==
    {"_build_api_url", "extract_data", "extract_all_pages",
     "_extract_single_page", "prepare_dataframe", "_clean_dataframe",
     "save_to_s3"}

\* A step a command performed and whether it went well; the return of a
\* function of main.py is a step too.
Step(name, ok) == [step |-> name, ok |-> ok]

Returned(steps) == steps[Len(steps)].ok

BoolStr(b) == IF b THEN "True" ELSE "False"

\* main.extract_data(): the steps it performs, the last one being its
\* return.  The constructor call raises before anything is fetched, and the
\* except Exception of line 102 turns that into False; so would the call of
\* save_data, which B3DataExtractor does not have.
MainExtractData(env) ==
    LET fetch == IF env.all_pages THEN "extractor.extract_all_pages"
                 ELSE "extractor.extract_data"
    IN  IF CtorException(MainKwargs) # "none"
        THEN <<Step("B3DataExtractor", FALSE), Step("extract_data", FALSE)>>
        ELSE IF env.fetch = "none"
        THEN <<Step("B3DataExtractor", TRUE), Step(fetch, FALSE),
               Step("extract_data", FALSE)>>
        ELSE IF env.rows = "none"
        THEN <<Step("B3DataExtractor", TRUE), Step(fetch, TRUE),
               Step("extractor.prepare_dataframe", FALSE),
               Step("extract_data", FALSE)>>
        ELSE IF "save_data" \notin ExtractorMethods
        THEN <<Step("B3DataExtractor", TRUE), Step(fetch, TRUE),
               Step("extractor.prepare_dataframe", TRUE),
               Step("extractor.save_data", FALSE),
               Step("extract_data", FALSE)>>
        ELSE <<Step("B3DataExtractor", TRUE), Step(fetch, TRUE),
               Step("extractor.prepare_dataframe", TRUE),
               Step("extractor.save_data", env.upload = "ok"),
               Step("extract_data", env.upload = "ok")>>

\* main.transform_data(): transform_and_save() over today's partition; ok
\* is what it returned.
MainTransformData(ok) ==
    <<Step("B3DataTransformer", TRUE),
      Step("transformer.transform_and_save", ok),
      Step("transform_data", ok)>>

\* The first check of main(): S3 storage with S3_BUCKET left at its
\* placeholder.
ConfigError(env) == env.storage_type = "s3" /\ ~env.bucket_set

\* A run_pipeline that goes on to the transformation whatever the
\* extraction returned.
PipelineContinuesAlways(extract_success) == TRUE

\* run_pipeline: `if not extract_success: return False`.
PipelineContinues(extract_success) == extract_success

\* python main.py extract
MainExtract ==
    /\ m_ret = "unset"
    /\ m_env.operation = "extract"
    /\ m_steps' = IF ConfigError(m_env) THEN << >>
                  ELSE MainExtractData(m_env)
    /\ m_ret' = BoolStr(~ConfigError(m_env) /\ Returned(m_steps'))
    /\ UNCHANGED <<m_env, storeVars>>

\* python main.py transform
MainTransform ==
    /\ m_ret = "unset"
    /\ m_env.operation = "transform"
    /\ IF ConfigError(m_env)
       THEN /\ m_steps' = << >>
            /\ m_ret' = "False"
            /\ UNCHANGED storeVars
       ELSE /\ TransformAndSave
            /\ call'.date = Today
            /\ call'.target = Today
            /\ m_steps' = MainTransformData(ret')
            /\ m_ret' = BoolStr(ret')
    /\ UNCHANGED m_env

\* python main.py pipeline
MainPipeline ==
    /\ m_ret = "unset"
    /\ m_env.operation = "pipeline"
    /\ IF ConfigError(m_env)
       THEN /\ m_steps' = << >>
            /\ m_ret' = "False"
            /\ UNCHANGED storeVars
       ELSE IF PipelineContinues(Returned(MainExtractData(m_env)))
       THEN /\ TransformAndSave
            /\ call'.date = Today
            /\ call'.target = Today
            /\ m_steps' = MainExtractData(m_env) \o MainTransformData(ret')
                          \o <<Step("run_pipeline", ret')>>
            /\ m_ret' = BoolStr(ret')
       ELSE /\ m_steps' = MainExtractData(m_env)
                          \o <<Step("run_pipeline", FALSE)>>
            /\ m_ret' = "False"
            /\ UNCHANGED storeVars
    /\ UNCHANGED m_env

\* python main.py with a command that is none of the three.
MainInvalid ==
    /\ m_ret = "unset"
    /\ m_env.operation \notin {"extract", "transform", "pipeline"}
    /\ m_steps' = << >>
    /\ m_ret' = "False"
    /\ UNCHANGED <<m_env, storeVars>>

\* exit(0 if success else 1)
ExitCode(r) == IF r = "True" THEN 0 ELSE 1

\* The run of the command line as the environment sets it up: the command,
\* STORAGE_TYPE, whether S3_BUCKET is set, B3_EXTRACT_ALL_PAGES, and what
\* each step of the extraction would end in if it were reached: the
\* retrieval in an envelope or in None, the normalization in some rows or in
\* none, the upload in one of the store's outcomes.  The store holds a raw
\* snapshot for today, or nothing.
InitMain ==
    /\ FetchIdle
    /\ ConcIdle
    /\ TransformIdle
    /\ PrepareIdle
    /\ UrlIdle
    /\ m_env \in
          [operation : {"extract", "transform", "pipeline", "load"},
           storage_type : {"s3", "local"}, bucket_set : BOOLEAN,
           all_pages : BOOLEAN, fetch : {"envelope", "none"},
           rows : {"some", "none"}, upload : S3Outcomes]
    /\ m_steps = << >>
    /\ m_ret = "unset"
    /\ \E df \in DataFrames :
          /\ store = [k \in Keys |->
                         IF k = RawKey(Today) /\ ~DfEmpty(df)
                         THEN Object(df, "b3-ibovespa", Today) ELSE Absent]
          /\ saved = [d \in Dates |-> IF d = Today THEN df ELSE << >>]
    /\ storeBefore = store
    /\ call = NoCall
    /\ ret = FALSE
    /\ readResult = NoRead
    /\ storeRaised = "none"

NextMain ==
    \/ (MainExtract /\ UNCHANGED <<fetchVars, concVars, transformVars,
                                   prepareVars, urlVars>>)
    \/ (MainTransform /\ UNCHANGED <<fetchVars, concVars, transformVars,
                                     prepareVars, urlVars>>)
    \/ (MainPipeline /\ UNCHANGED <<fetchVars, concVars, transformVars,
                                    prepareVars, urlVars>>)
    \/ (MainInvalid /\ UNCHANGED <<fetchVars, concVars, transformVars,
                                   prepareVars, urlVars>>)

SpecMain == InitMain /\ [][NextMain]_vars

\* =================================================================== claims
\* The run ended with extract_all_pages returning a consolidated envelope.
ReturnedConsolidated ==
    /\ mode = "all"
    /\ pc = "done"
    /\ raised = "none"
    /\ Truthy(first_page)
    /\ ~SinglePageOnly(TotalPagesOf(first_page))

\* The upstream records of pages 1..n whose fetch ended with a body that has
\* results, in page order.
RECURSIVE FetchedRecords(_)
FetchedRecords(n) ==
    IF n = 0 THEN << >>
    ELSE FetchedRecords(n - 1) \o
         (IF pageOutcome[n] = "ok" THEN PageResults(n) ELSE << >>)

\* extract_all_pages has ended on a first page that reports totalPages > 1.
EndedMultiPage ==
    /\ mode = "all"
    /\ pc = "done"
    /\ pageOutcome[1] \in {"ok", "noresults"}
    /\ srcHasPage
    /\ SrcTotalPages > 1

\* C1: when page 1 reports totalPages = N > 1, extract_all_pages returns an
\* envelope whose results are exactly the upstream records of page 1 and of
\* every page 2..N fetched with results, in page order and upstream order;
\* the records of failed pages are absent.
C1_Concatenation ==
    EndedMultiPage
    => /\ raised = "none"
       /\ result.type = "dict"
       /\ result.results = FetchedRecords(SrcTotalPages)

\* C1 restricted to a first page that has a `results` key: the envelope is
\* returned and holds the concatenation.
C1_ConcatenationGivenResults ==
    (mode = "all" /\ pc = "done" /\ pageOutcome[1] = "ok"
        /\ srcHasPage /\ SrcTotalPages > 1)
    => /\ raised = "none"
       /\ result.type = "dict"
       /\ result.results = FetchedRecords(SrcTotalPages)

\* C1 witness: three pages, the middle one failed and its record is missing.
C1_Witness ==
    /\ ReturnedConsolidated
    /\ SrcTotalPages = 3
    /\ pageOutcome[2] = "failed"
    /\ pageOutcome[3] = "ok"
    /\ result.results = <<1, 3>>

\* Positions of the log that are requests.
ReqAt == {i \in DOMAIN log : log[i][1] = "req"}

\* C2: with totalPages = N > 1 the fetch is never aborted: requests are
\* issued in ascending page order, page k+1 is first requested only after
\* the retry loop of page k has ended, and when extract_all_pages ends every
\* page 2..N has been requested at least once.
C2_SequentialNoAbort ==
    /\ \A i, j \in ReqAt : i < j => log[i][2] <= log[j][2]
    /\ \A k \in Pages : (k > 1 /\ NumReq(k) > 0) => pageOutcome[k - 1] # "pending"
    /\ EndedMultiPage =>
         \A k \in 2..SrcTotalPages : NumReq(k) >= 1

\* C2 restricted to runs that return the consolidated envelope: a page that
\* gave up does not keep the later pages from being requested.
C2_SequentialGivenReturn ==
    /\ \A i, j \in ReqAt : i < j => log[i][2] <= log[j][2]
    /\ \A k \in Pages : (k > 1 /\ NumReq(k) > 0) => pageOutcome[k - 1] # "pending"
    /\ ReturnedConsolidated =>
         \A k \in 2..SrcTotalPages : NumReq(k) >= 1

\* C2 witness: page 2 failed after all its retries and page 3 was requested.
C2_Witness ==
    /\ ReturnedConsolidated
    /\ SrcTotalPages = 3
    /\ pageOutcome[2] = "failed"
    /\ NumReq(2) = max_retries
    /\ NumReq(3) >= 1

\* A usable body: non-empty, with or without results.
Usable == {"ok", "noresults"}

\* C3: extract_data issues at most max_retries requests, returns the first
\* usable body and issues no request after it, and returns None when all
\* max_retries attempts ended in a transport, status or JSON error.
C3_BoundedRetry ==
    /\ [](/\ NumReq(1) <= max_retries
          /\ pageOutcome[1] \in Usable => pageRet[1] = Body(1, pageOutcome[1])
          /\ (mode = "single" /\ pc = "done") => result = pageRet[1]
          /\ (errs[1] = max_retries) =>
                 /\ pc # "extract_data" \/ max_retries = 0
                 /\ pc # "extract_data" => pageRet[1] = None)
    /\ [][pageOutcome[1] # "pending" => NumReq(1)' = NumReq(1)]_vars

\* C3 witness: extract_data alone gave up after max_retries = 2 errors.
C3_Witness ==
    /\ mode = "single"
    /\ pc = "done"
    /\ max_retries = 2
    /\ errs[1] = 2
    /\ result = None

\* C4: no exception leaves extract_data, _extract_single_page or
\* extract_all_pages: every run ends with a returned value.
C4_NoException == pc = "done" => raised = "none"

\* The kinds of error a retry loop can end on.
ErrorKinds == {"TransportError", "MalformedResponse", "Unexpected"}

\* Pages whose fetch gave up after max_retries failed attempts.
GaveUp == {p \in Pages : pageOutcome[p] = "failed" /\ errs[p] >= 1
                             /\ lastErr[p] \in ErrorKinds}

\* C5 as stated: two fetches that gave up on errors of different kinds return
\* distinguishable values.
C5_KindsDistinguishable ==
    \A p, q \in GaveUp : lastErr[p] # lastErr[q] => pageRet[p] # pageRet[q]

\* C5 amended: a fetch that gives up returns None whatever the kind of its
\* last error (the kind is only logged).
C5_GiveUpIsNone == \A p \in GaveUp : pageRet[p] = None

\* C5 witness: two pages gave up on errors of different kinds.
C5_Witness ==
    \E p, q \in GaveUp :
        /\ lastErr[p] = "TransportError"
        /\ lastErr[q] = "MalformedResponse"
        /\ pageRet[p] = pageRet[q]

\* C6: within a page's retry loop a backoff sleep separates every two
\* consecutive requests and occurs nowhere else: none before the first
\* request, none after the last, one fewer sleeps than requests.
C6_BackoffBetweenAttempts ==
    /\ \A p \in Pages :
         /\ NumReq(p) = 0 => NumBackoff(p) = 0
         /\ NumReq(p) >= 1 => NumBackoff(p) = NumReq(p) - 1
    /\ \A i \in DOMAIN log :
         /\ log[i][1] = "backoff" =>
              /\ i > 1 /\ log[i - 1] = <<"req", log[i][2]>>
              /\ i < Len(log) /\ log[i + 1] = <<"req", log[i][2]>>
         /\ (log[i][1] = "req" /\ i < Len(log)) => log[i + 1] # log[i]

\* C6 witness: a page beyond the first was requested twice and given up.
C6_Witness ==
    \E p \in Pages :
        /\ p > 1
        /\ pageOutcome[p] = "failed"
        /\ NumReq(p) = 2
        /\ NumBackoff(p) = 1
        /\ NumReq(1) = 2

\* C7: in extract_data a non-empty body without results is returned at once,
\* an empty body is never returned, and max_retries empty bodies end in None.
C7_EmptyBodyIsFailure ==
    /\ [](/\ pageOutcome[1] = "noresults" =>
                /\ pageRet[1] = Body(1, "noresults")
                /\ pc # "extract_data"
          /\ pageRet[1] # EmptyDict
          /\ mode = "single" => result # EmptyDict
          /\ (empties[1] = max_retries /\ pc # "extract_data") => pageRet[1] = None
          /\ (empties[1] = max_retries /\ max_retries > 0) => pc # "extract_data")
    /\ [][pageOutcome[1] = "noresults" => NumReq(1)' = NumReq(1)]_vars

\* C7 witness: both attempts of extract_data decoded an empty body.
C7_Witness ==
    /\ max_retries = 2
    /\ empties[1] = 2
    /\ pc = "done"
    /\ mode = "single"
    /\ result = None

\* C8: when page 1 reports totalPages <= 1 or carries no pagination data,
\* extract_all_pages returns the page-1 envelope as served and requests no
\* other page.
C8_SinglePageAsIs ==
    (mode = "all" /\ pc = "done" /\ pageOutcome[1] \in Usable
        /\ (~srcHasPage \/ SrcTotalPages <= 1))
    => /\ raised = "none"
       /\ result = Body(1, pageOutcome[1])
       /\ \A p \in Pages : p > 1 => NumReq(p) = 0

\* C8 witness: a single page of two records came back as served.
C8_Witness ==
    /\ mode = "all"
    /\ pc = "done"
    /\ srcHasPage
    /\ SrcTotalPages = 1
    /\ pageOutcome[1] = "ok"
    /\ result.results = <<1, 2>>
    /\ log = << <<"req", 1>> >>

\* C9: the consolidated envelope's page.totalRecords is the length of its
\* results, also when pages were skipped.
C9_TotalRecords ==
    ReturnedConsolidated =>
        /\ result.hasPage
        /\ result.totalRecords = Len(result.results)

\* C9 witness: a page was skipped, so the count differs from the upstream's.
C9_Witness ==
    /\ ReturnedConsolidated
    /\ \E p \in Pages : pageOutcome[p] = "failed"
    /\ result.totalRecords = 2
    /\ srcRecords = 3

\* The last store call was a write.
IsWrite == call.op \in {"save_to_s3", "save_transformed_to_s3"}

\* C10: save_to_s3 and save_transformed_to_s3 called with an empty record
\* set return False and leave every object of the store as it was.
C10_EmptyWriteNoEffect ==
    (IsWrite /\ Len(call.df) = 0) => (ret = FALSE /\ store = storeBefore)

\* C10 witness: an empty frame was offered for a date that already holds a
\* snapshot, with the store ready to accept an upload.
C10_Witness ==
    /\ call.op = "save_to_s3"
    /\ Len(call.df) = 0
    /\ call.s3 = "ok"
    /\ storeBefore[RawKey(call.date)].present

\* The last store call was a read that found the store answering.
IsAnsweredRead == call.op = "read_from_s3" /\ call.s3 = "ok"

\* What the get_object of the last call (read_from_s3, or the read of
\* transform_and_save) ended in.
CallOutcome == GetOutcome(Lookup(storeBefore, ReadKey(call.date)), call.s3)

\* C11: after a successful save_to_s3(records, d), a read_from_s3(d) with no
\* write to d in between returns a frame equal to records, field for field;
\* the key read_from_s3 looks up is the key save_to_s3 wrote.
C11_WriteThenRead ==
    /\ \A d \in Dates : ReadKey(d) = RawKey(d)
    /\ (IsAnsweredRead /\ saved[call.date] # << >>)
           => readResult = Frame(saved[call.date])

\* C11 witness: the two-row snapshot of a date was read back while the other
\* date, whose key has the same digits, holds a different snapshot.
C11_Witness ==
    /\ IsAnsweredRead
    /\ saved[call.date] = <<RowA, RowB>>
    /\ readResult.type = "DataFrame"
    /\ \E d \in Dates \ {call.date} : saved[d] = <<RowA>>

\* The last call was a successful save_to_s3 onto a date that held data.
IsOverwrite ==
    /\ call.op = "save_to_s3"
    /\ ret = TRUE
    /\ storeBefore[RawKey(call.date)].present

\* The raw objects the store holds for a date.
RawObjectsOf(d) ==
    {k \in Keys : /\ store[k].present
                  /\ store[k].source = "b3-ibovespa"
                  /\ store[k].date = d}

\* C12: a second save_to_s3 for a date leaves exactly one object for that
\* date, holding the second data set alone; a read afterwards returns the
\* second data set, not the first and not both.
C12_Overwrite ==
    /\ IsOverwrite =>
          /\ store[RawKey(call.date)] = Object(call.df, "b3-ibovespa", call.date)
          /\ Cardinality(RawObjectsOf(call.date)) = 1
    /\ (IsAnsweredRead /\ store[ReadKey(call.date)].present) =>
          /\ readResult.rows = saved[call.date]
          /\ Len(readResult.rows) = store[ReadKey(call.date)].record_count

\* C12 witness: a date holding the two-row set was written again with the
\* one-row set.
C12_Witness ==
    /\ IsOverwrite
    /\ ReadParquet(storeBefore[RawKey(call.date)].body) = <<RowA, RowB>>
    /\ call.df = <<RowA>>

\* C13: read_from_s3 for a date never written returns None, the value it
\* gives for a partition that is not found, and raises nothing.
C13_ReadNeverWritten ==
    (call.op = "read_from_s3" /\ saved[call.date] = << >>)
        => (readResult = NoneFrame /\ storeRaised = "none")

\* C13 witness: the store answered a read of a date never written while the
\* other date holds a snapshot.
C13_Witness ==
    /\ IsAnsweredRead
    /\ saved[call.date] = << >>
    /\ CallOutcome = "NoSuchKey"
    /\ \E d \in Dates : saved[d] # << >>

\* The last call was a read_from_s3 that failed.
IsFailedRead == call.op = "read_from_s3" /\ CallOutcome \in ReadFailures

\* C14 (as stated): the value returned for an absent partition differs from
\* the value returned for any other store failure: of two reads in a row
\* that fail, one for the absent partition and one otherwise, the returned
\* values differ.
C14_NotFoundDistinct ==
    [][(/\ IsFailedRead
        /\ IsFailedRead'
        /\ (CallOutcome = "NoSuchKey") # (CallOutcome' = "NoSuchKey"))
          => readResult' # readResult]_vars

\* C14 (amended): read_from_s3 returns None for every failure, the absent
\* partition included; only the logged message tells the failures apart.
C14_FailedReadIsNone == IsFailedRead => readResult = NoneFrame

\* C14 witness: a read failed on a client error other than NoSuchKey although
\* the partition was there.
C14_Witness ==
    /\ IsFailedRead
    /\ CallOutcome = "ClientError"
    /\ store[ReadKey(call.date)].present
    /\ readResult = NoneFrame

\* The last call was a transform_and_save.
IsTransformAndSave == call.op = "transform_and_save"

\* C16: a store failure is reported as False, never as an exception:
\* save_to_s3 and save_transformed_to_s3 return False when the upload ends in
\* NoCredentialsError, ClientError or any other exception; transform_and_save
\* returns False when its read or its upload fails, and after a failed read
\* it has written nothing.
C16_FailureIsFalse ==
    /\ (IsWrite /\ ~DfEmpty(call.df) /\ call.s3 # "ok")
           => (ret = FALSE /\ storeRaised = "none")
    /\ (IsTransformAndSave /\ CallOutcome \in ReadFailures)
           => (ret = FALSE /\ storeRaised = "none" /\ store = storeBefore)
    /\ (IsTransformAndSave /\ call.s3w \notin {"ok", "none"})
           => (ret = FALSE /\ storeRaised = "none")

\* C16 witness: transform_and_save read a snapshot and transformed it, and
\* the upload onto a date that already held a transformed set failed for
\* want of credentials.
C16_Witness ==
    /\ IsTransformAndSave
    /\ CallOutcome = "ok"
    /\ call.s3w = "NoCredentialsError"
    /\ storeBefore[TransformedKey(call.target)].present
    /\ ret = FALSE

\* The run whose upload to date d completed last, 0 if none did.
LastUploader(d) ==
    LET at == {j \in 1..Len(uploads) : runs[uploads[j]].date = d}
    IN  IF at = {} THEN 0
        ELSE uploads[CHOOSE j \in at : \A k \in at : k <= j]

\* C15: when two runs write the snapshot of a date concurrently, the object
\* of the date is at every moment the whole record set of one of the runs,
\* the one whose upload came last; no read gets a part of a set or a mixture.
C15_ConcurrentWrites ==
    /\ \A d \in Dates :
          IF LastUploader(d) = 0 THEN ~store[RawKey(d)].present
          ELSE store[RawKey(d)] =
                   Object(runs[LastUploader(d)].df, "b3-ibovespa", d)
    /\ (IsAnsweredRead /\ readResult.type = "DataFrame")
          => \E i \in Runs : /\ runs[i].date = call.date
                             /\ runs[i].ret = TRUE
                             /\ readResult = Frame(runs[i].df)

\* C15 witness: both runs wrote the same date with different record sets,
\* run 2 first, and a read afterwards got the set of run 1.
C15_Witness ==
    /\ runs[1].date = runs[2].date
    /\ runs[1].df # runs[2].df
    /\ uploads = <<2, 1>>
    /\ IsAnsweredRead
    /\ call.date = runs[1].date
    /\ readResult = Frame(runs[1].df)

\* transform_data returned a frame.
Transformed == t_result.raised = "none"

\* The input rows whose asset is a.
RowsOf(a) == {i \in 1..Len(t_df) : t_df[i].asset = a}

\* C17: when one of asset, cod, part, theoricalQty is absent from the input,
\* transform_data ends in an error and yields no rows; transform_and_save on
\* such a snapshot returns False and writes no transformed object.
C17_MissingColumnAborts ==
    /\ (t_result # NotRun /\ MissingColumns(t_df) # {})
           => (t_result.raised = "ValueError" /\ t_result.rows = << >>)
    /\ (IsTransformAndSave /\ CallOutcome = "ok" /\ MissingColumns(t_df) # {})
           => /\ ret = FALSE
              /\ store = storeBefore
              /\ \A d \in Dates : ~store[TransformedKey(d)].present

\* C17 witness: a stored two-row snapshot without theoricalQty was handed to
\* transform_data and run through transform_and_save with the store
\* answering.
C17_Witness ==
    /\ Len(t_df) = 2
    /\ MissingColumns(t_df) = {"theoricalQty"}
    /\ t_result # NotRun
    /\ IsTransformAndSave
    /\ CallOutcome = "ok"

\* C18: transform_data yields one row per distinct asset value of the input
\* (a missing asset is no value): as many rows as distinct asset values, no
\* two of them with the same acao.
C18_OneRowPerAsset ==
    Transformed =>
        /\ Len(t_result.rows) =
               Cardinality({t_df[i].asset : i \in 1..Len(t_df)} \ {Missing})
        /\ \A i, j \in 1..Len(t_result.rows) :
               t_result.rows[i].acao = t_result.rows[j].acao => i = j

\* C18 witness: two rows of the same asset gave one row.
C18_Witness ==
    /\ Transformed
    /\ Len(t_df) = 2
    /\ t_df[1].asset = "A"
    /\ t_df[2].asset = "A"
    /\ Len(t_result.rows) = 1

\* C19 (as stated): qtd_codigo of every output row is the number of input
\* rows whose asset is the row's acao, rows with a missing cod included.
C19_CountsRows ==
    Transformed =>
        \A j \in 1..Len(t_result.rows) :
            t_result.rows[j].qtd_codigo =
                Cardinality(RowsOf(t_result.rows[j].acao))

\* The sum of a column over a set of input rows.
RECURSIVE SumCells(_, _)
SumCells(I, col) ==
    IF I = {} THEN 0
    ELSE LET i == CHOOSE i \in I : TRUE
         IN  t_df[i][col] + SumCells(I \ {i}, col)

\* C20: participacao and qtd_teorica_total of every output row are the sums
\* of part and of theoricalQty over the input rows whose asset is the row's
\* acao; a missing value adds nothing and makes nothing fail.
C20_SumsSkipMissing ==
    /\ (t_result # NotRun /\ MissingColumns(t_df) = {}) => Transformed
    /\ Transformed =>
        \A j \in 1..Len(t_result.rows) :
            LET row == t_result.rows[j]
            IN  /\ row.participacao =
                       SumCells({i \in RowsOf(row.acao) : t_df[i].part # NaN},
                                "part")
                /\ row.qtd_teorica_total =
                       SumCells({i \in RowsOf(row.acao) :
                                     t_df[i].theoricalQty # NaN},
                                "theoricalQty")

\* C20 witness: an asset with one row whose part is missing and one row whose
\* theoricalQty is missing.
C20_Witness ==
    /\ Transformed
    /\ Len(t_df) = 2
    /\ t_df[1].asset = "B" /\ t_df[2].asset = "B"
    /\ t_df[1].part = NaN /\ t_df[2].part = 1
    /\ t_df[1].theoricalQty = 10 /\ t_df[2].theoricalQty = NaN
    /\ t_result.rows[1].participacao = 1
    /\ t_result.rows[1].qtd_teorica_total = 10

\* Number of requests of the whole run.
TotalReq == Cardinality({i \in DOMAIN log : log[i][1] = "req"})

\* C27 (as stated): every page has a retry budget of its own and the fetch
\* terminates: no page receives more than max_retries requests, whatever the
\* other pages used, the run makes at most max_retries x totalPages
\* requests, and it ends.
C27_PerPageBudget ==
    /\ [](\A p \in Pages : NumReq(p) <= max_retries)
    /\ [](TotalReq <= max_retries * total_pages)
    /\ <>(pc = "done")

\* The pages a run addresses: page 1, and the pages up to totalPages.
PagesAddressed == IF total_pages < 1 THEN 1 ELSE total_pages

\* C27 (amended): as stated, with page 1 counted as addressed also when the
\* first page reports a totalPages of 0: the run makes at most
\* max_retries x max(1, totalPages) requests.
C27_PerPageBudgetAddressed ==
    /\ [](\A p \in Pages : NumReq(p) <= max_retries)
    /\ [](\A p \in Pages : p > PagesAddressed => NumReq(p) = 0)
    /\ [](TotalReq <= max_retries * PagesAddressed)
    /\ <>(pc = "done")

\* C27 witness: page 1 succeeded on its last attempt and page 2 still had,
\* and used, its whole budget.
C27_Witness ==
    /\ mode = "all"
    /\ pc = "done"
    /\ max_retries = 2
    /\ NumReq(1) = 2
    /\ NumReq(2) = 2
    /\ pageOutcome[1] = "ok"

\* C28: when page 1 fails after its retries, extract_all_pages returns None
\* and requests no page other than page 1.
C28_FirstPageFailure ==
    (mode = "all" /\ pc = "done" /\ pageOutcome[1] = "failed")
        => /\ result = None
           /\ raised = "none"
           /\ \A p \in Pages \ {1} : NumReq(p) = 0 /\ pageOutcome[p] = "pending"

\* C28 witness: page 1 gave up after two requests although the index has
\* more than one page.
C28_Witness ==
    /\ mode = "all"
    /\ pc = "done"
    /\ pageOutcome[1] = "failed"
    /\ NumReq(1) = 2
    /\ SrcTotalPages >= 2

\* C29: a page k >= 2 whose request succeeded with a body that has no
\* `results` is not requested again, adds no record, and the fetch goes on
\* with page k + 1.
C29_PageWithoutResults ==
    \A k \in Pages \ {1} :
        pageOutcome[k] = "noresults" =>
            /\ NumReq(k) = errs[k] + 1
            /\ \A i \in DOMAIN all_results :
                   \A j \in DOMAIN PageResults(k) :
                       all_results[i] # PageResults(k)[j]
            /\ page_num > k
            /\ (pc = "done" /\ k < total_pages)
                   => pageOutcome[k + 1] # "pending"

\* C29 witness: of three pages the second came without `results` and the
\* third was fetched and consolidated.
C29_Witness ==
    /\ pc = "done"
    /\ total_pages = 3
    /\ pageOutcome[2] = "noresults"
    /\ pageOutcome[3] = "ok"
    /\ result.results = <<1, 3>>

\* C30: a store write changes at most one object: save_to_s3 that of the raw
\* key of its date, save_transformed_to_s3 and transform_and_save that of the
\* transformed key of their date; raw and transformed keys never coincide,
\* distinct dates have distinct keys, and a read changes nothing.
C30_WriteFrame ==
    /\ \A d1, d2 \in Dates :
          /\ RawKey(d1) # TransformedKey(d2)
          /\ d1 # d2 => /\ RawKey(d1) # RawKey(d2)
                        /\ TransformedKey(d1) # TransformedKey(d2)
    /\ call.op = "save_to_s3" =>
          \A k \in Keys \ {RawKey(call.date)} : store[k] = storeBefore[k]
    /\ call.op = "save_transformed_to_s3" =>
          \A k \in Keys \ {TransformedKey(call.date)} : store[k] = storeBefore[k]
    /\ call.op = "transform_and_save" =>
          \A k \in Keys \ {TransformedKey(call.target)} : store[k] = storeBefore[k]
    /\ call.op = "read_from_s3" => store = storeBefore

\* C30 witness: transform_and_save read the raw snapshot of a date and wrote
\* the transformed object of the same date, both dates holding raw snapshots.
C30_Witness ==
    /\ IsTransformAndSave
    /\ ret = TRUE
    /\ call.target = call.date
    /\ store[TransformedKey(call.target)] # storeBefore[TransformedKey(call.target)]
    /\ \A d \in Dates : store[RawKey(d)].present


\* The call of prepare_dataframe has returned.
Prepared == p_result # NotPrepared

\* The envelope is a dict whose results field is absent, null or an empty
\* list.
ResultsEmptyOrAbsent ==
    /\ p_raw.type = "dict"
    /\ \/ p_raw.results.kind \in {"absent", "null"}
       \/ p_raw.results.kind = "list" /\ p_raw.results.items = << >>

\* C21: whenever the envelope's results field is empty or absent,
\* prepare_dataframe returns an empty record set and reports no error: no
\* exception leaves the call and nothing is logged at error level, whatever
\* the rest of the envelope holds.
C21_EmptyResults ==
    (Prepared /\ ResultsEmptyOrAbsent) =>
        /\ p_result.rows = << >>
        /\ p_result.raised = "none"
        /\ p_result.logged # "error"

C21_Witness ==
    /\ Prepared
    /\ p_raw.results.kind = "absent"
    /\ p_raw.header = "text"
    /\ p_result.rows = << >>
    /\ p_result.logged = "warning"

\* The envelope is one the body of prepare_dataframe cannot work through:
\* it is None, its results are a number, or it has records and a header
\* that is not a dict.
StructuralFailure ==
    \/ p_raw.type = "NoneType"
    \/ /\ p_raw.type = "dict"
       /\ p_raw.results.kind = "int"
       /\ p_raw.results.n # 0
    \/ /\ p_raw.type = "dict"
       /\ p_raw.results.kind = "list"
       /\ p_raw.results.items # << >>
       /\ p_raw.header = "text"

\* C22: prepare_dataframe never propagates an exception to its caller, and
\* on every envelope on which the body fails structurally (a None envelope
\* included) it returns the explicitly empty record set: no row and no
\* column.
C22_NeverPropagates ==
    Prepared =>
        /\ p_result.raised = "none"
        /\ StructuralFailure =>
              p_result.rows = << >> /\ p_result.columns = {}

C22_Witness ==
    /\ Prepared
    /\ p_raw.type = "NoneType"
    /\ p_result.raised = "none"
    /\ p_result.logged = "error"
    /\ p_result.rows = << >>

\* The text with every character that is not a digit, comma, period or
\* minus sign removed and every comma turned into a period, character by
\* character.
RECURSIVE Scrubbed(_)
Scrubbed(s) ==
    IF s = << >> THEN << >>
    ELSE (IF Head(s) \in Digits \cup {".", "-"} THEN <<Head(s)>>
          ELSE IF Head(s) = "," THEN <<".">>
          ELSE << >>) \o Scrubbed(Tail(s))

RECURSIVE Pow10(_)
Pow10(n) == IF n = 0 THEN 1 ELSE 10 * Pow10(n - 1)

AllDigits(s) == \A i \in DOMAIN s : s[i] \in Digits

\* The ways of reading the text as a decimal numeral: an optional minus
\* sign, integer digits, and optionally a period and fraction digits, with
\* a digit somewhere.
Readings(t) ==
    {r \in [neg : BOOLEAN, k : 0..Len(t), dot : BOOLEAN] :
        LET first == IF r.neg THEN 2 ELSE 1
            int   == SubSeq(t, first, r.k)
            frac  == SubSeq(t, r.k + 2, Len(t))
        IN  /\ r.neg => (Len(t) >= 1 /\ t[1] = "-")
            /\ r.k >= first - 1
            /\ AllDigits(int)
            /\ IF r.dot
               THEN r.k < Len(t) /\ t[r.k + 1] = "." /\ AllDigits(frac)
               ELSE r.k = Len(t)
            /\ Len(int) + (IF r.dot THEN Len(frac) ELSE 0) >= 1}

\* The number v is the one the reading r of the text t denotes.
Denotes(t, r, v) ==
    LET first == IF r.neg THEN 2 ELSE 1
        int   == SubSeq(t, first, r.k)
        frac  == IF r.dot THEN SubSeq(t, r.k + 2, Len(t)) ELSE << >>
    IN  /\ ~v.nan
        /\ v.mantissa * Pow10(Len(frac)) = IntOf(int \o frac) * Pow10(v.scale)
        /\ v.mantissa # 0 => v.neg = r.neg

\* The cell v is what the description of the normalizer gives for the raw
\* text s.
Normalized(s, v) ==
    LET t == Scrubbed(s)
    IN  IF Readings(t) = {} THEN v = NaNValue
        ELSE \A r \in Readings(t) : Denotes(t, r, v)

\* The envelope holds records and prepare_dataframe worked through them.
RecordsPrepared ==
    /\ Prepared
    /\ p_raw.type = "dict"
    /\ p_raw.results.kind = "list"
    /\ p_raw.results.items # << >>
    /\ p_raw.header # "text"

\* C23: for every raw record, part and theoricalQty of the returned record
\* are the raw text with every character other than digits, commas, periods
\* and minus signs removed, each comma replaced by a period, and the result
\* parsed as a number; a text that does not parse gives the missing-value
\* marker; every record is kept, in order ("2,85" gives 2.85, "abc" gives
\* the marker).
C23_NumericColumns ==
    RecordsPrepared =>
        LET items == p_raw.results.items
            rows  == p_result.rows
        IN  /\ Len(rows) = Len(items)
            /\ \A i \in DOMAIN items :
                  /\ ~items[i].part.null =>
                        Normalized(items[i].part.chars, rows[i].part)
                  /\ ~items[i].theoricalQty.null =>
                        Normalized(items[i].theoricalQty.chars,
                                   rows[i].theoricalQty)
                  /\ items[i].part = Text(<<"2", ",", "8", "5">>) =>
                        rows[i].part = [nan |-> FALSE, neg |-> FALSE,
                                        mantissa |-> 285, scale |-> 2]
                  /\ items[i].part = Text(<<"a", "b", "c">>) =>
                        rows[i].part = NaNValue

C23_Witness ==
    /\ RecordsPrepared
    /\ Len(p_result.rows) = 2
    /\ p_raw.results.items[1].theoricalQty = Text(<<"-", "2", ",", "2">>)
    /\ p_result.rows[1].theoricalQty =
           [nan |-> FALSE, neg |-> TRUE, mantissa |-> 22, scale |-> 1]
    /\ p_result.rows[1].part # NaNValue

\* The last path segment of a request target.
LastSegment(url) ==
    LET slashes == {i \in DOMAIN url : url[i] = "/"}
        last    == CHOOSE i \in slashes : \A j \in slashes : j <= i
    IN  SubSeq(url, last + 1, Len(url))

B64Index(c) == (CHOOSE i \in DOMAIN B64Alphabet : B64Alphabet[i] = c) - 1

\* The text is a base64 text: groups of four characters of the alphabet, the
\* last one possibly ending in = or ==.
IsB64(s) ==
    /\ Len(s) % 4 = 0
    /\ \A i \in DOMAIN s :
          \/ s[i] \in {B64Alphabet[k] : k \in DOMAIN B64Alphabet}
          \/ s[i] = "=" /\ i >= Len(s) - 1 /\ s[Len(s)] = "="

\* The bytes a base64 text stands for.
RECURSIVE B64Decode(_)
B64Decode(s) ==
    IF s = << >> THEN << >>
    ELSE LET b1 == B64Index(s[1]) * 4 + B64Index(s[2]) \div 16
         IN  IF s[3] = "=" THEN <<b1>>
             ELSE LET b2 == (B64Index(s[2]) % 16) * 16 + B64Index(s[3]) \div 4
                  IN  IF s[4] = "=" THEN <<b1, b2>>
                      ELSE <<b1, b2, (B64Index(s[3]) % 4) * 64
                                     + B64Index(s[4])>>
                           \o B64Decode(SubSeq(s, 5, Len(s)))

Utf8Decode(bytes) == [i \in DOMAIN bytes |-> Ascii[bytes[i] - 31]]

\* The pieces of a text between the occurrences of a separator.
RECURSIVE Split(_, _)
Split(s, sep) ==
    LET at == {i \in DOMAIN s : s[i] = sep}
    IN  IF at = {} THEN <<s>>
        ELSE LET i == CHOOSE k \in at : \A j \in at : k <= j
             IN  <<SubSeq(s, 1, i - 1)>>
                 \o Split(SubSeq(s, i + 1, Len(s)), sep)

\* The members of the JSON object, as (key, value) pairs of texts.
JsonMembers(t) ==
    LET items == Split(SubSeq(t, 2, Len(t) - 1), ",")
    IN  {Split(items[i], ":") : i \in DOMAIN items}

IsJsonString(v) == Len(v) >= 2 /\ v[1] = "\"" /\ v[Len(v)] = "\""

IsJsonInt(v) ==
    LET digs == IF v # << >> /\ v[1] = "-" THEN Tail(v) ELSE v
    IN  digs # << >> /\ AllDigits(digs)

JsonIntValue(v) ==
    IF v[1] = "-" THEN 0 - IntOf(Tail(v)) ELSE IntOf(v)

JsonStringValue(v) == SubSeq(v, 2, Len(v) - 1)

\* The value of the member, which is the only one with that key.
JsonValue(t, key) ==
    LET m == CHOOSE m \in JsonMembers(t) : m[1] = StrChars(key)
    IN  m[2]

KeyPageNumber == <<"p", "a", "g", "e", "N", "u", "m", "b", "e", "r">>

KeyPageSize == <<"p", "a", "g", "e", "S", "i", "z", "e">>

KeyLanguage == <<"l", "a", "n", "g", "u", "a", "g", "e">>

KeyIndex == <<"i", "n", "d", "e", "x">>

\* Base64-decoding and JSON-decoding the last path segment of the request
\* target gives exactly the parameter set p.
DecodesTo(url, p) ==
    LET seg == LastSegment(url)
    IN  /\ IsB64(seg)
        /\ LET t == Utf8Decode(B64Decode(seg))
           IN  /\ Len(t) >= 2 /\ t[1] = "{" /\ t[Len(t)] = "}"
               /\ \A m \in JsonMembers(t) : Len(m) = 2
               /\ {m[1] : m \in JsonMembers(t)} =
                     {StrChars(KeyPageNumber), StrChars(KeyPageSize),
                      StrChars(KeyLanguage), StrChars(KeyIndex)}
               /\ Cardinality(JsonMembers(t)) = 4
               /\ IsJsonInt(JsonValue(t, KeyPageNumber))
               /\ JsonIntValue(JsonValue(t, KeyPageNumber)) = p.page_number
               /\ IsJsonInt(JsonValue(t, KeyPageSize))
               /\ JsonIntValue(JsonValue(t, KeyPageSize)) = p.page_size
               /\ IsJsonString(JsonValue(t, KeyLanguage))
               /\ JsonStringValue(JsonValue(t, KeyLanguage)) = p.language
               /\ IsJsonString(JsonValue(t, KeyIndex))
               /\ JsonStringValue(JsonValue(t, KeyIndex)) = p.index

\* C24: _build_api_url is a function of (pageNumber, pageSize, language,
\* index) alone: every call with the same parameters returns the same
\* request target, character for character; base64-decoding and then
\* JSON-decoding its last path segment gives back exactly the parameters;
\* and a target is returned whatever the page size, inside 1..1200 or not.
C24_RequestTarget ==
    /\ \A i, j \in DOMAIN u_url : u_url[i] = u_url[j]
    /\ \A i \in DOMAIN u_url : DecodesTo(u_url[i], u_params)

C24_Witness ==
    /\ Len(u_url) = 2
    /\ u_params.page_size = 1201
    /\ u_params.page_number = 2
    /\ u_url[1] = u_url[2]
    /\ DecodesTo(u_url[2], u_params)

\* The command ran past the configuration check of main() and returned.
Ran(operation) ==
    /\ m_env.operation = operation
    /\ m_ret # "unset"
    /\ ~ConfigError(m_env)

\* Every step of the extraction would go well: the retrieval gives a
\* non-empty envelope, the normalization a non-empty record set, and the
\* store accepts the write.
ExtractionHealthy ==
    /\ m_env.fetch = "envelope"
    /\ m_env.rows = "some"
    /\ m_env.upload = "ok"

\* C25: main.extract_data returns True (and the command exits with code 0)
\* when the retrieval returns a non-empty envelope, the normalization gives
\* a non-empty record set and the store write succeeds; it returns False
\* only when one of those steps fails.
C25_ExtractSucceeds ==
    Ran("extract") =>
        /\ ExtractionHealthy => (m_ret = "True" /\ ExitCode(m_ret) = 0)
        /\ m_ret = "False" => ~ExtractionHealthy

HasStep(st) == \E i \in DOMAIN m_steps : m_steps[i] = st

TransformStarted ==
    \E i \in DOMAIN m_steps :
        m_steps[i].step \in {"B3DataTransformer",
                             "transformer.transform_and_save",
                             "transform_data"}

\* C26: in run_pipeline the transformation starts only after extract_data
\* has returned True; when the extraction fails, the store is neither read
\* nor written, nothing is aggregated and the pipeline returns False; the
\* pipeline returns True only if extract_data and then transform_data
\* returned True.
C26_TransformAfterExtract ==
    Ran("pipeline") =>
        /\ \A i \in DOMAIN m_steps :
              m_steps[i].step \in {"B3DataTransformer",
                                   "transformer.transform_and_save",
                                   "transform_data"} =>
                 \E j \in 1..(i - 1) : m_steps[j] = Step("extract_data", TRUE)
        /\ call # NoCall => HasStep(Step("extract_data", TRUE))
        /\ HasStep(Step("extract_data", FALSE)) =>
              /\ ~TransformStarted
              /\ call = NoCall
              /\ store = storeBefore
              /\ readResult = NoRead
              /\ m_ret = "False"
        /\ m_ret = "True" =>
              \E i, j \in DOMAIN m_steps :
                  /\ i < j
                  /\ m_steps[i] = Step("extract_data", TRUE)
                  /\ m_steps[j] = Step("transform_data", TRUE)

C26_Witness ==
    /\ Ran("pipeline")
    /\ HasStep(Step("extract_data", FALSE))
    /\ store[RawKey(Today)].present
    /\ call = NoCall
    /\ ~TransformStarted
    /\ m_ret = "False"

====
